---- MODULE Spec2Model ----
(***************************************************************************)
(* Model of the nebulous terminal dashboard (src/src/main.rs): the main    *)
(* loop of run_ui, the App state it owns, the input-polling task started   *)
(* by start_key_events, the table-list task spawned by refresh_table_list  *)
(* and load_table, which the main loop awaits inline.                      *)
(***************************************************************************)
EXTENDS Integers, Sequences, FiniteSets, TLC

VARIABLES
    active,          \* App.active
    tables,          \* App.tables.selected(): NoneSel or an index
    items,           \* App.items.selected(): NoneSel or an index
    table_list,      \* App.table_list
    selected_table,  \* App.selected_table
    rx,              \* channel of start_key_events (capacity 1)
    ui_rx,           \* channel ui_tx/ui_rx of run_ui (capacity 1)
    mainPc,          \* position of the main loop of run_ui
    pending,         \* message the main loop is sending, or the LoadTable it is serving
    scan_result,     \* answer of the remote scan awaited by load_table
    inPc,            \* position of the task of start_key_events
    inKey,           \* key read by that task and not yet sent
    tick_due,        \* last_tick.elapsed() >= tick_rate
    refPc,           \* position of the task of refresh_table_list
    ref_tables,      \* table names returned by list_tables
    raw_mode,        \* terminal: raw mode is enabled
    alt_screen,      \* terminal: the alternate screen is entered
    loads_issued,    \* history: LoadTable requests dispatched by table_selected
    loads_served     \* history: LoadTable requests served to their end

vars == <<active, tables, items, table_list, selected_table, rx, ui_rx, mainPc,
          pending, scan_result, inPc, inKey, tick_due, refPc, ref_tables,
          raw_mode, alt_screen, loads_issued, loads_served>>

appState == <<active, tables, items, table_list, selected_table>>

-----------------------------------------------------------------------------
(* Bounds of the environment *)

MaxTables == 2      \* most table names list_tables returns
MaxRows == 2        \* most records a scan returns
MaxLoads == 2       \* most times the user presses Enter
MaxBelowMax == 1    \* explored distance of a wrapped cursor below UsizeMax

(* Program constants *)

ChannelCap == 1     \* tokio::sync::mpsc::channel(1)
UsizeMax == 2147483647  \* usize::MAX, scaled to the largest integer TLC holds

NoneSel == -1       \* Option::None of a selection

Names == <<"a", "b", "c", "d">>

\* Results list_tables can return: the first n names, n = 0..MaxTables
TableLists == { SubSeq(Names, 1, n) : n \in 0..MaxTables }

\* A remote record, as the sequence of attribute names its HashMap iterates
Records == { <<"id">>, <<"v", "id">> }

\* Item lists a scan can return: none, or a first record of either shape
\* followed by records of the one-attribute shape, MaxRows at most
ItemLists ==
    { <<>> } \cup { <<r>> \o [i \in 1..n |-> <<"id">>] :
                      r \in Records, n \in 0..(MaxRows - 1) }

Keys == { "q", "j", "k", "Enter", "Tab", "x" }

-----------------------------------------------------------------------------
(* Values *)

NebTable(headers, rows) == [headers |-> headers, rows |-> rows]

NebTableDefault == NebTable(<<>>, <<>>)

Input(k) == [type |-> "Input", code |-> k]
Tick == [type |-> "Tick", code |-> "-"]

NoMsg == [type |-> "none"]
RefreshDynamoTableList(ts) == [type |-> "RefreshDynamoTableList", tables |-> ts]
LoadTable(name) == [type |-> "LoadTable", name |-> name]
DisplayTable(t) == [type |-> "DisplayTable", table |-> t]

ScanPending == [kind |-> "pending"]
ScanErr == [kind |-> "Err"]
ScanNoItems == [kind |-> "None"]
ScanSome(its) == [kind |-> "Some", items |-> its]

ScanOutcomes == { ScanErr, ScanNoItems } \cup { ScanSome(its) : its \in ItemLists }

-----------------------------------------------------------------------------
(* App *)

\* the cursor arithmetic of one arm of App::move_down
MoveDownSel(selected, len, wrap) ==
    IF selected >= len THEN wrap ELSE selected + 1

move_down_list(selected, len) == MoveDownSel(selected, len, 0)

move_down_rows(selected, len) == MoveDownSel(selected, len, 1)

\* the subtraction len - 1 of App::move_up on usize, when it does not panic
WrappingLast(len) == IF len = 0 THEN UsizeMax ELSE len - 1

\* App::move_up computes len - 1 with len = 0: a build with overflow checks
\* panics there, a build without them wraps
MoveUpOverflows(selected, len) == selected = 0 /\ len = 0

MoveUpSel(selected, len) ==
    IF selected > 0 THEN selected - 1 ELSE WrappingLast(len)


Init ==
    /\ active = "TableList"
    /\ tables = 0
    /\ items = NoneSel
    /\ table_list = <<>>
    /\ selected_table = NebTableDefault
    /\ rx = <<>>
    /\ ui_rx = <<>>
    /\ mainPc = "select"
    /\ pending = NoMsg
    /\ scan_result = ScanPending
    /\ inPc = "poll"
    /\ inKey = "-"
    /\ tick_due = FALSE
    /\ refPc = "list"
    /\ ref_tables = <<>>
    /\ raw_mode = TRUE
    /\ alt_screen = TRUE
    /\ loads_issued = 0
    /\ loads_served = 0

\* the process is alive: run_ui has not returned and has not panicked
Running == mainPc \notin { "done", "failed", "panicked" }

unchangedHistory == UNCHANGED <<loads_issued, loads_served>>
unchangedTerm == UNCHANGED <<raw_mode, alt_screen>>
unchangedInput == UNCHANGED <<inPc, inKey, tick_due>>
unchangedRefresh == UNCHANGED <<refPc, ref_tables>>
unchangedApp == UNCHANGED <<active, tables, items, table_list, selected_table>>

\* the main loop takes the input event e from rx in tokio::select!
TakesInput(e) ==
    /\ mainPc = "select"
    /\ rx # <<>>
    /\ Head(rx) = e
    /\ rx' = Tail(rx)
    /\ UNCHANGED <<ui_rx, scan_result>>
    /\ unchangedInput
    /\ unchangedRefresh

\* a Tick arm that reloads the table under the list cursor
TickEvent_Reloads ==
    /\ TakesInput(Tick)
    /\ IF tables # NoneSel /\ tables < Len(table_list)
       THEN pending' = LoadTable(table_list[tables + 1]) /\ mainPc' = "send"
       ELSE UNCHANGED <<mainPc, pending>>
    /\ unchangedApp
    /\ unchangedHistory
    /\ unchangedTerm

\* Event::Tick => {}
TickEvent ==
    /\ TakesInput(Tick)
    /\ UNCHANGED <<mainPc, pending>>
    /\ unchangedApp
    /\ unchangedHistory
    /\ unchangedTerm

\* KeyCode::Char('q') that breaks without LeaveAlternateScreen
KeyQuit_KeepsAltScreen ==
    /\ TakesInput(Input("q"))
    /\ mainPc' = "done"
    /\ raw_mode' = FALSE
    /\ UNCHANGED alt_screen
    /\ UNCHANGED pending
    /\ unchangedApp
    /\ unchangedHistory

\* KeyCode::Char('q')
KeyQuit ==
    /\ TakesInput(Input("q"))
    /\ mainPc' = "done"
    /\ raw_mode' = FALSE
    /\ alt_screen' = FALSE
    /\ UNCHANGED pending
    /\ unchangedApp
    /\ unchangedHistory

\* KeyCode::Char('j') => app.move_down()
move_down ==
    /\ TakesInput(Input("j"))
    /\ IF active = "TableList"
       THEN /\ tables' = IF tables # NoneSel
                         THEN move_down_list(tables, Len(table_list))
                         ELSE tables
            /\ UNCHANGED items
       ELSE IF active = "TableData"
       THEN /\ items' = IF items # NoneSel
                        THEN move_down_rows(items, Len(selected_table.rows))
                        ELSE items
            /\ UNCHANGED tables
       ELSE UNCHANGED <<tables, items>>
    /\ UNCHANGED <<active, table_list, selected_table, mainPc, pending>>
    /\ unchangedHistory
    /\ unchangedTerm

\* a panic on the main task: the hook set by run_ui prints and disables raw
\* mode, then the process ends
PanicHook ==
    /\ mainPc' = "panicked"
    /\ raw_mode' = FALSE
    /\ UNCHANGED alt_screen

\* KeyCode::Char('k') => app.move_up()
move_up ==
    /\ TakesInput(Input("k"))
    /\ IF active = "TableList"
       THEN \/ /\ MoveUpOverflows(tables, Len(table_list))
               /\ PanicHook
               /\ UNCHANGED <<tables, items>>
            \/ /\ tables' = IF tables # NoneSel
                             THEN MoveUpSel(tables, Len(table_list))
                             ELSE tables
               /\ UNCHANGED <<items, mainPc>>
               /\ unchangedTerm
       ELSE IF active = "TableData"
       THEN \/ /\ MoveUpOverflows(items, Len(selected_table.rows))
               /\ PanicHook
               /\ UNCHANGED <<tables, items>>
            \/ /\ items' = IF items # NoneSel
                            THEN MoveUpSel(items, Len(selected_table.rows))
                            ELSE items
               /\ UNCHANGED <<tables, mainPc>>
               /\ unchangedTerm
       ELSE UNCHANGED <<tables, items, mainPc>> /\ unchangedTerm
    /\ UNCHANGED <<active, table_list, selected_table, pending>>
    /\ unchangedHistory

\* table_selected that always asks for the first table name
table_selected_FirstName ==
    /\ TakesInput(Input("Enter"))
    /\ IF tables # NoneSel /\ tables < Len(table_list)
       THEN /\ pending' = LoadTable(table_list[1])
            /\ mainPc' = "send"
            /\ loads_issued' = loads_issued + 1
       ELSE UNCHANGED <<pending, mainPc, loads_issued>>
    /\ unchangedApp
    /\ unchangedTerm
    /\ UNCHANGED loads_served

\* KeyCode::Enter => app.table_selected(), up to the send of App::dispatch
table_selected ==
    /\ TakesInput(Input("Enter"))
    /\ IF tables # NoneSel /\ tables < Len(table_list)
       THEN /\ pending' = LoadTable(table_list[tables + 1])
            /\ mainPc' = "send"
            /\ loads_issued' = loads_issued + 1
       ELSE UNCHANGED <<pending, mainPc, loads_issued>>
    /\ unchangedApp
    /\ unchangedTerm
    /\ UNCHANGED loads_served

\* the match of toggle_active_pane whose TableData arm falls to None
ToggleView_ToNone(a) ==
    IF a = "TableList" THEN "TableData" ELSE "None"

\* the ActiveView that the match of App::toggle_active_pane assigns
ToggleView(a) ==
    IF a = "TableList" THEN "TableData" ELSE "TableList"

\* KeyCode::Tab => app.toggle_active_pane()
toggle_active_pane ==
    /\ TakesInput(Input("Tab"))
    /\ active' = ToggleView(active)
    /\ items' = IF active = "TableList" /\ items = NoneSel THEN 0 ELSE items
    /\ UNCHANGED <<tables, table_list, selected_table, mainPc, pending>>
    /\ unchangedHistory
    /\ unchangedTerm

\* _ => {}
KeyOther ==
    /\ TakesInput(Input("x"))
    /\ UNCHANGED <<mainPc, pending>>
    /\ unchangedApp
    /\ unchangedHistory
    /\ unchangedTerm

\* io_tx.send(action).await of App::dispatch and tx.send(..).await of
\* load_table: completes when the channel has room, waits otherwise
UiSend ==
    /\ mainPc = "send"
    /\ Len(ui_rx) < ChannelCap
    /\ ui_rx' = Append(ui_rx, pending)
    /\ pending' = NoMsg
    /\ mainPc' = "select"
    /\ UNCHANGED <<rx, scan_result>>
    /\ unchangedApp
    /\ unchangedInput
    /\ unchangedRefresh
    /\ unchangedHistory
    /\ unchangedTerm

\* the main loop takes a UI event of the given type from ui_rx
TakesUi(type) ==
    /\ mainPc = "select"
    /\ ui_rx # <<>>
    /\ Head(ui_rx).type = type
    /\ ui_rx' = Tail(ui_rx)
    /\ UNCHANGED <<rx>>
    /\ unchangedInput
    /\ unchangedRefresh

\* UIEvent::RefreshDynamoTableList(tables) => app.load_tables(&tables)
load_tables ==
    /\ TakesUi("RefreshDynamoTableList")
    /\ table_list' = Head(ui_rx).tables
    /\ UNCHANGED <<active, tables, items, selected_table, mainPc, pending, scan_result>>
    /\ unchangedHistory
    /\ unchangedTerm

\* UIEvent::LoadTable(name) => load_table(..).await, up to the scan's await
load_table_start ==
    /\ TakesUi("LoadTable")
    /\ mainPc' = "scan"
    /\ pending' = Head(ui_rx)
    /\ scan_result' = ScanPending
    /\ unchangedApp
    /\ unchangedHistory
    /\ unchangedTerm

\* the remote store answers the scan
ScanReply ==
    /\ mainPc = "scan"
    /\ scan_result = ScanPending
    /\ \E r \in ScanOutcomes : scan_result' = r
    /\ UNCHANGED <<rx, ui_rx, mainPc, pending>>
    /\ unchangedApp
    /\ unchangedInput
    /\ unchangedRefresh
    /\ unchangedHistory
    /\ unchangedTerm

\* TableRow::from: one KV per attribute, in the order the record iterates
TableRowFrom(record) == [i \in 1..Len(record) |-> [key |-> record[i]]]

\* vals of load_table: the rows converted from the records
RowsOf(its) == [i \in 1..Len(its) |-> TableRowFrom(its[i])]

\* the column names of a row
RowKeys(row) == [i \in 1..Len(row) |-> row[i].key]

\* headers taken from the last record instead of the first
HeadersOf_LastRecord(its) == IF its # <<>> THEN its[Len(its)] ELSE <<>>

\* headers of load_table: the attribute names of the first record
HeadersOf(its) == IF its # <<>> THEN Head(its) ELSE <<>>

\* load_table that sends nothing when the scan carries zero records
load_table_DropsEmpty ==
    /\ mainPc = "scan"
    /\ scan_result # ScanPending
    /\ IF scan_result.kind = "Err"
       THEN /\ mainPc' = "failed"
            /\ pending' = NoMsg
            /\ loads_served' = loads_served + 1
       ELSE IF scan_result.kind = "None" \/ scan_result.items = <<>>
       THEN /\ mainPc' = "select"
            /\ pending' = NoMsg
            /\ loads_served' = loads_served + 1
       ELSE /\ mainPc' = "send"
            /\ pending' = DisplayTable(NebTable(HeadersOf(scan_result.items),
                                                RowsOf(scan_result.items)))
            /\ UNCHANGED loads_served
    /\ scan_result' = ScanPending
    /\ UNCHANGED <<rx, ui_rx, loads_issued>>
    /\ unchangedTerm
    /\ unchangedApp
    /\ unchangedInput
    /\ unchangedRefresh

\* load_table after the scan's await, up to its send
load_table ==
    /\ mainPc = "scan"
    /\ scan_result # ScanPending
    /\ IF scan_result.kind = "Err"
       THEN /\ mainPc' = "failed"
            /\ pending' = NoMsg
            /\ loads_served' = loads_served + 1
       ELSE IF scan_result.kind = "None"
       THEN /\ mainPc' = "select"
            /\ pending' = NoMsg
            /\ loads_served' = loads_served + 1
       ELSE /\ mainPc' = "send"
            /\ pending' = DisplayTable(NebTable(HeadersOf(scan_result.items),
                                                RowsOf(scan_result.items)))
            /\ UNCHANGED loads_served
    /\ scan_result' = ScanPending
    /\ UNCHANGED <<rx, ui_rx, loads_issued>>
    /\ unchangedTerm
    /\ unchangedApp
    /\ unchangedInput
    /\ unchangedRefresh

\* select_table that keeps a table already displayed (first-applied-wins)
select_table_FirstWins ==
    /\ TakesUi("DisplayTable")
    /\ selected_table' = IF selected_table = NebTableDefault
                          THEN Head(ui_rx).table
                          ELSE selected_table
    /\ loads_served' = loads_served + 1
    /\ UNCHANGED <<active, tables, items, table_list, mainPc, pending, scan_result>>
    /\ unchangedTerm
    /\ UNCHANGED loads_issued

\* select_table that moves the row cursor back to the first row
select_table_ResetsCursor ==
    /\ TakesUi("DisplayTable")
    /\ selected_table' = Head(ui_rx).table
    /\ items' = IF items = NoneSel THEN items ELSE 0
    /\ loads_served' = loads_served + 1
    /\ UNCHANGED <<active, tables, table_list, mainPc, pending, scan_result>>
    /\ unchangedTerm
    /\ UNCHANGED loads_issued

\* UIEvent::DisplayTable(table) => app.select_table(table)
select_table ==
    /\ TakesUi("DisplayTable")
    /\ selected_table' = Head(ui_rx).table
    /\ loads_served' = loads_served + 1
    /\ UNCHANGED <<active, tables, items, table_list, mainPc, pending, scan_result>>
    /\ unchangedTerm
    /\ UNCHANGED loads_issued

MainLoop ==
    \/ TickEvent
    \/ KeyQuit
    \/ move_down
    \/ move_up
    \/ table_selected
    \/ toggle_active_pane
    \/ KeyOther
    \/ UiSend
    \/ load_tables
    \/ load_table_start
    \/ load_table
    \/ select_table

-----------------------------------------------------------------------------
(* start_key_events *)

unchangedMain == UNCHANGED <<ui_rx, mainPc, pending, scan_result>>

\* Enter keys pressed and not yet handled by the main loop
EntersInFlight ==
    (IF inPc = "send_key" /\ inKey = "Enter" THEN 1 ELSE 0)
    + (IF rx # <<>> /\ Head(rx) = Input("Enter") THEN 1 ELSE 0)

\* Key(up) presses read and not yet handled by the main loop
UpsInFlight ==
    (IF inPc = "send_key" /\ inKey = "k" THEN 1 ELSE 0)
    + (IF rx # <<>> /\ Head(rx) = Input("k") THEN 1 ELSE 0)

\* exploration bound on the user: a cursor that wrapped to UsizeMax is
\* followed down to UsizeMax - MaxBelowMax and no further, so Key(up) is not
\* pressed when the presses in flight could take a cursor below that
WithinExplored(selected) ==
    LET below == IF selected >= UsizeMax - MaxBelowMax
                 THEN UsizeMax - selected
                 ELSE -1
    IN  below + UpsInFlight + 1 <= MaxBelowMax

\* wall-clock time reaches the tick deadline
TimePasses ==
    /\ Running
    /\ ~tick_due
    /\ tick_due' = TRUE
    /\ UNCHANGED <<rx, inPc, inKey>>
    /\ unchangedMain
    /\ unchangedApp
    /\ unchangedRefresh
    /\ unchangedHistory
    /\ unchangedTerm

\* event::poll(timeout) is true and event::read() is a key
PollKey ==
    /\ Running
    /\ inPc = "poll"
    /\ \E k \in Keys :
        /\ k = "Enter" => loads_issued + EntersInFlight < MaxLoads
        /\ k = "k" => (WithinExplored(tables) /\ WithinExplored(items))
        /\ inKey' = k
    /\ inPc' = "send_key"
    /\ UNCHANGED <<rx, tick_due>>
    /\ unchangedMain
    /\ unchangedApp
    /\ unchangedRefresh
    /\ unchangedHistory
    /\ unchangedTerm

\* event::poll(timeout) is true and event::read() is not a key
PollOther ==
    /\ Running
    /\ inPc = "poll"
    /\ inPc' = "check"
    /\ UNCHANGED <<rx, inKey, tick_due>>
    /\ unchangedMain
    /\ unchangedApp
    /\ unchangedRefresh
    /\ unchangedHistory
    /\ unchangedTerm

\* event::poll(timeout) is false: the time left to the deadline has passed
PollTimeout ==
    /\ Running
    /\ inPc = "poll"
    /\ tick_due
    /\ inPc' = "check"
    /\ UNCHANGED <<rx, inKey, tick_due>>
    /\ unchangedMain
    /\ unchangedApp
    /\ unchangedRefresh
    /\ unchangedHistory
    /\ unchangedTerm

\* tx.send(Event::Input(key)).await that restarts the tick interval
SendKey_ResetsDeadline ==
    /\ Running
    /\ inPc = "send_key"
    /\ Len(rx) < ChannelCap
    /\ rx' = Append(rx, Input(inKey))
    /\ inKey' = "-"
    /\ inPc' = "check"
    /\ tick_due' = FALSE
    /\ unchangedMain
    /\ unchangedApp
    /\ unchangedRefresh
    /\ unchangedHistory
    /\ unchangedTerm

\* tx.send(Event::Input(key)).await
SendKey ==
    /\ Running
    /\ inPc = "send_key"
    /\ Len(rx) < ChannelCap
    /\ rx' = Append(rx, Input(inKey))
    /\ inKey' = "-"
    /\ inPc' = "check"
    /\ UNCHANGED tick_due
    /\ unchangedMain
    /\ unchangedApp
    /\ unchangedRefresh
    /\ unchangedHistory
    /\ unchangedTerm

\* if last_tick.elapsed() >= tick_rate
CheckTick ==
    /\ Running
    /\ inPc = "check"
    /\ inPc' = IF tick_due THEN "send_tick" ELSE "poll"
    /\ UNCHANGED <<rx, inKey, tick_due>>
    /\ unchangedMain
    /\ unchangedApp
    /\ unchangedRefresh
    /\ unchangedHistory
    /\ unchangedTerm

\* tx.send(Event::Tick).await is Ok: last_tick = Instant::now()
SendTick ==
    /\ Running
    /\ inPc = "send_tick"
    /\ Len(rx) < ChannelCap
    /\ rx' = Append(rx, Tick)
    /\ tick_due' = FALSE
    /\ inPc' = "poll"
    /\ UNCHANGED inKey
    /\ unchangedMain
    /\ unchangedApp
    /\ unchangedRefresh
    /\ unchangedHistory
    /\ unchangedTerm

start_key_events ==
    \/ PollKey
    \/ PollOther
    \/ PollTimeout
    \/ SendKey
    \/ CheckTick
    \/ SendTick

-----------------------------------------------------------------------------
(* refresh_table_list *)

\* client.client().list_tables().send().await
ListTablesReply ==
    /\ Running
    /\ refPc = "list"
    /\ \/ \E ts \in TableLists : ref_tables' = ts /\ refPc' = "send"
       \/ ref_tables' = <<>> /\ refPc' = "done"
    /\ UNCHANGED <<rx>>
    /\ unchangedMain
    /\ unchangedApp
    /\ unchangedInput
    /\ unchangedHistory
    /\ unchangedTerm

\* refresh_table_list that stores the names into the App itself
refresh_table_list_WritesApp ==
    /\ Running
    /\ refPc = "send"
    /\ table_list' = ref_tables
    /\ ref_tables' = <<>>
    /\ refPc' = "done"
    /\ UNCHANGED <<rx, ui_rx, mainPc, pending, scan_result>>
    /\ UNCHANGED <<active, tables, items, selected_table>>
    /\ unchangedInput
    /\ unchangedHistory
    /\ unchangedTerm

\* tx.send(UIEvent::RefreshDynamoTableList(tables)).await
refresh_table_list ==
    /\ Running
    /\ refPc = "send"
    /\ Len(ui_rx) < ChannelCap
    /\ ui_rx' = Append(ui_rx, RefreshDynamoTableList(ref_tables))
    /\ ref_tables' = <<>>
    /\ refPc' = "done"
    /\ UNCHANGED <<rx, mainPc, pending, scan_result>>
    /\ unchangedApp
    /\ unchangedInput
    /\ unchangedHistory
    /\ unchangedTerm

-----------------------------------------------------------------------------

Next ==
    \/ MainLoop
    \/ ScanReply
    \/ TimePasses
    \/ start_key_events
    \/ ListTablesReply
    \/ refresh_table_list

Spec == Init /\ [][Next]_vars

\* the runtime keeps running every task that can run, time keeps passing and
\* the remote store answers every scan
FairSpec ==
    /\ Spec
    /\ WF_vars(MainLoop)
    /\ WF_vars(TimePasses)
    /\ WF_vars(ScanReply)
    /\ WF_vars(start_key_events)
    /\ WF_vars(ListTablesReply \/ refresh_table_list)

\* the dashboard while list_tables has not answered: the input task, the
\* clock and the input arm of the main loop's select!
InputNext ==
    \/ TickEvent
    \/ KeyQuit
    \/ move_down
    \/ move_up
    \/ table_selected
    \/ toggle_active_pane
    \/ KeyOther
    \/ TimePasses
    \/ start_key_events

InputSpec ==
    /\ Init
    /\ [][InputNext]_vars
    /\ WF_vars(TickEvent \/ KeyQuit \/ move_down \/ move_up \/ table_selected
                 \/ toggle_active_pane \/ KeyOther)
    /\ WF_vars(TimePasses)
    /\ WF_vars(start_key_events)

-----------------------------------------------------------------------------
(* Properties *)

\* the main loop handles Key(down)
HandlesDown == move_down

\* the main loop applies a DisplayTable event
AppliesDisplay ==
    /\ mainPc = "select"
    /\ ui_rx # <<>>
    /\ Head(ui_rx).type = "DisplayTable"
    /\ ui_rx' = Tail(ui_rx)

\* a cursor holds a value produced by a wrapped subtraction
Wrapped(selected) == selected >= UsizeMax - MaxBelowMax

RECURSIVE DownTimes(_, _, _)
DownTimes(n, selected, len) ==
    IF n = 0 THEN selected
    ELSE DownTimes(n - 1, move_down_list(selected, len), len)

\* C1: with ActiveView = TableList, a non-empty table-name list of length N
\* and an in-range list cursor, N presses of Key(down) bring the cursor back
\* to its starting value.
C1_DownNTimesReturns ==
    (active = "TableList" /\ table_list # <<>>
        /\ tables # NoneSel /\ tables < Len(table_list))
    => DownTimes(Len(table_list), tables, Len(table_list)) = tables

\* C2: with ActiveView = TableList and a non-empty list, Key(down) at the
\* last index sets the list cursor to 0, and Key(down) at 0 then sets it to 1.
C2_DownAtLastWrapsToZero ==
    [][(HandlesDown /\ active = "TableList" /\ table_list # <<>>)
        => /\ tables = Len(table_list) - 1 => tables' = 0
           /\ (tables = 0 /\ Len(table_list) > 1) => tables' = 1]_vars

\* C3: a set list cursor is below the length of the table-name list and a
\* set row cursor is below the number of rows of the displayed table.
C3_CursorsInRange ==
    /\ tables # NoneSel => tables < Len(table_list)
    /\ items # NoneSel => items < Len(selected_table.rows)

\* C4: Key(up) and Key(down) on an empty list never underflow the cursor
\* arithmetic and never panic.
C4_NoUnderflowNoPanic ==
    /\ mainPc # "panicked"
    /\ ~Wrapped(tables)
    /\ ~Wrapped(items)

\* a LoadTable request is being dispatched while an earlier one is in flight:
\* its LoadTable or its DisplayTable is still queued
Overlap ==
    /\ mainPc = "send"
    /\ pending.type = "LoadTable"
    /\ ui_rx # <<>>
    /\ Head(ui_rx).type \in { "LoadTable", "DisplayTable" }

\* C5: when a LoadTable request is issued while an earlier one is in flight,
\* every request issued so far is eventually served to its end: its
\* TableLoaded event is applied by the main loop, unless its scan failed or
\* carried no item list.
C5_OverlappingLoadsBothApplied ==
    \A k \in 1..MaxLoads :
        (Overlap /\ loads_issued = k) ~> (loads_served >= k)

\* C6: the displayed table is the table of the most recently applied
\* TableLoaded event: applying one replaces the displayed table by the table
\* it carries, and no other step changes the displayed table.
C6_LastAppliedWins ==
    [][/\ AppliesDisplay => selected_table' = Head(ui_rx).table
       /\ ~AppliesDisplay => selected_table' = selected_table]_vars

C6_Witness ==
    /\ loads_served >= 1
    /\ selected_table # NebTableDefault
    /\ mainPc = "select"
    /\ ui_rx # <<>>
    /\ Head(ui_rx).type = "DisplayTable"
    /\ Head(ui_rx).table # selected_table

\* the main loop handles an event of the input channel
HandlesInput ==
    TickEvent \/ KeyQuit \/ move_down \/ move_up \/ table_selected
        \/ toggle_active_pane \/ KeyOther

\* C7: while a remote scan is in flight the main loop can still consume a
\* Key or Tick event that is waiting in the input channel.
C7_InputHandledDuringScan ==
    (mainPc = "scan" /\ scan_result = ScanPending /\ rx # <<>>)
    => ENABLED HandlesInput

\* C8: a failed remote scan leaves the main loop running, emits no event and
\* leaves the Application State unchanged.
C8_FailedScanNonFatal ==
    [][(load_table /\ scan_result = ScanErr)
        => /\ mainPc' = "select"
           /\ pending' = NoMsg
           /\ ui_rx' = ui_rx
           /\ appState' = appState]_vars

\* the records a successful scan carries
ScanRecords(r) == IF r.kind = "Some" THEN r.items ELSE <<>>

\* load_table resumes from a successful scan that carries zero records
ResumesFromEmptyScan ==
    /\ load_table
    /\ scan_result.kind \in { "None", "Some" }
    /\ ScanRecords(scan_result) = <<>>

\* C9 as stated: a successful scan with zero records emits no TableLoaded
\* event and leaves the displayed table unchanged.
C9_EmptyScanEmitsNothing ==
    [][ResumesFromEmptyScan
        => /\ mainPc' = "select"
           /\ pending' = NoMsg
           /\ ui_rx' = ui_rx
           /\ selected_table' = selected_table]_vars

\* C9 amended: a scan response without an item list emits nothing and leaves
\* the state unchanged; a response with an empty item list makes load_table
\* send a TableLoaded event with empty headers and rows on the empty UI
\* channel, and applying that event replaces the displayed table by the
\* empty table.
C9_EmptyScanAmended ==
    [][/\ ResumesFromEmptyScan
          => /\ appState' = appState
             /\ ui_rx' = ui_rx
             /\ IF scan_result.kind = "None"
                THEN mainPc' = "select" /\ pending' = NoMsg
                ELSE /\ mainPc' = "send"
                     /\ pending' = DisplayTable(NebTableDefault)
                     /\ ui_rx = <<>>
       /\ (AppliesDisplay /\ Head(ui_rx).table.rows = <<>>)
          => selected_table' = NebTableDefault]_vars

C9_Witness ==
    /\ mainPc = "select"
    /\ ui_rx = <<DisplayTable(NebTableDefault)>>
    /\ selected_table.rows # <<>>

\* a step of the input task, of the clock, of the table-list task or of the
\* remote store
BackgroundStep ==
    start_key_events \/ TimePasses \/ ListTablesReply \/ refresh_table_list
        \/ ScanReply

\* C10: every change of the Application State is made by a step of the main
\* loop; steps of the background tasks leave it unchanged.
C10_SingleWriter ==
    [][/\ appState' # appState => MainLoop
       /\ BackgroundStep => appState' = appState]_vars

C10_Witness ==
    /\ refPc = "done"
    /\ table_list # <<>>
    /\ selected_table # NebTableDefault
    /\ rx # <<>>

\* C11: handling Key(quit) ends the main loop with raw mode disabled and the
\* alternate screen left, and once the loop has ended no event is applied to
\* the Application State.
C11_QuitRestoresTerminal ==
    /\ [](mainPc = "done" => (~raw_mode /\ ~alt_screen))
    /\ [][/\ KeyQuit => mainPc' = "done"
          /\ mainPc = "done" => (mainPc' = "done" /\ appState' = appState)]_vars

C11_Witness ==
    /\ mainPc = "done"
    /\ active = "TableData"
    /\ selected_table # NebTableDefault

\* C12: when the dashboard ends abnormally, by a panic or by an error
\* returned out of the main loop, raw mode is disabled and the alternate
\* screen is left.
C12_AbnormalEndRestoresTerminal ==
    mainPc \in { "failed", "panicked" } => (~raw_mode /\ ~alt_screen)

\* the main loop waits for ever in a send on its own full channel
MainStuck == mainPc = "send" /\ Len(ui_rx) >= ChannelCap

\* C13: once the tick interval has elapsed a Tick is emitted, whatever keys
\* are read in between, as long as the main loop keeps consuming events.
C13_TicksNeverStarve ==
    tick_due ~> (rx = <<Tick>> \/ ~Running \/ MainStuck)

C13_Witness ==
    /\ rx = <<Tick>>
    /\ inPc = "send_key"
    /\ tick_due

\* C14: two presses of Key(toggle-pane) bring ActiveView back to the value it
\* had before the first.
C14_ToggleTwiceReturns ==
    ToggleView(ToggleView(active)) = active

C14_Witness ==
    /\ active = "TableData"
    /\ items # NoneSel
    /\ table_list # <<>>

\* C15: Key(select) with ActiveView = TableList and the list cursor in range
\* hands exactly one LoadTable, for the name under the cursor, to the UI
\* channel's send and leaves the Application State unchanged.
C15_SelectDispatchesOne ==
    [][/\ (table_selected /\ active = "TableList"
              /\ tables # NoneSel /\ tables < Len(table_list))
          => /\ pending = NoMsg
             /\ pending' = LoadTable(table_list[tables + 1])
             /\ mainPc' = "send"
             /\ loads_issued' = loads_issued + 1
             /\ ui_rx' = ui_rx
             /\ appState' = appState
       /\ UiSend => (ui_rx' = Append(ui_rx, pending) /\ appState' = appState)]_vars

C15_Witness ==
    /\ active = "TableList"
    /\ tables = 1
    /\ mainPc = "select"
    /\ Len(table_list) = 2
    /\ ui_rx = <<LoadTable(table_list[2])>>

\* C16: handling a Tick leaves the Application State unchanged and
\* dispatches no fetch request.
C16_TickChangesNothing ==
    [][TickEvent
        => /\ appState' = appState
           /\ mainPc' = mainPc
           /\ pending' = pending
           /\ ui_rx' = ui_rx
           /\ loads_issued' = loads_issued]_vars

C16_Witness ==
    /\ mainPc = "select"
    /\ rx = <<Tick>>
    /\ active = "TableData"
    /\ selected_table # NebTableDefault
    /\ tables < Len(table_list)

\* C17: with ActiveView = TableData, a set row cursor and a non-empty row
\* set, Key(down) advances the row cursor by 1, or sets it to 1 when the
\* advance would pass the last row index; it never sets it to 0.
C17_RowDownWrapsToOne ==
    [][(move_down /\ active = "TableData" /\ items # NoneSel
            /\ selected_table.rows # <<>>)
        => /\ items' = IF items >= Len(selected_table.rows) - 1
                        THEN 1
                        ELSE items + 1
           /\ items' # 0]_vars

\* C18: applying a fetch result replaces only the data it carries: the
\* table-name list or the displayed table; ActiveView and both cursors keep
\* their values.
C18_FetchResultFrame ==
    [][/\ load_tables
          => /\ table_list' = Head(ui_rx).tables
             /\ UNCHANGED <<active, tables, items, selected_table>>
       /\ select_table
          => /\ selected_table' = Head(ui_rx).table
             /\ UNCHANGED <<active, tables, items, table_list>>]_vars

C18_Witness ==
    /\ items # NoneSel
    /\ selected_table.rows # <<>>
    /\ items > Len(selected_table.rows)
    /\ items < UsizeMax - MaxBelowMax

\* C19: when the displayed table has rows, its headers are non-empty and are
\* the column names of its first row.
C19_HeadersOfFirstRow ==
    selected_table.rows # <<>>
    => /\ selected_table.headers # <<>>
       /\ selected_table.headers = RowKeys(selected_table.rows[1])

C19_Witness ==
    /\ Len(selected_table.rows) >= 2
    /\ RowKeys(selected_table.rows[2]) # selected_table.headers

\* C20: the main loop is never blocked sending an event into its own UI
\* channel while that channel is full.
C20_NoSelfDeadlock ==
    ~MainStuck

====
